---- MODULE Spec2Model ----
(***************************************************************************)
(* Distributed Jacobi solver of challenge_3 (class Solver): scatter of the *)
(* initial grid, the update / all-reduce / halo-exchange loop of           *)
(* solution_finder_mpi and the final gather, one process per MPI rank.     *)
(* C indices are 0-based; the sequences below are 1-based, so the element  *)
(* at C index k is element k + 1 of the sequence.                          *)
(***************************************************************************)
EXTENDS Integers, Sequences, FiniteSets, TLC

\* ------------------------------------------------------------------ bounds
\* largest column count n of the global n x n grid
MaxN == 3
\* largest number of MPI ranks (size <= n: at most one rank per grid row)
MaxSize == 3
\* conditions::n_max, the iteration cap (i == n_max - 1 forces the exit)
n_max == 3
\* the local relaxation kernel computes its values modulo KernelMod
KernelMod == 5

VARIABLES
  n,            \* Solver::n, number of columns (and rows) of the global grid
  size,         \* MPI_Comm_size
  sendmode,     \* how the MPI library completes a standard-mode send
  scenario,     \* what the driver runs after the scatter
  pc,           \* pc[r]: position of rank r
  mesh,         \* mesh[r]: Solver::mesh of rank r, the local buffer
  mesh_obj,     \* mesh_obj[r]: the grid held by the local update kernel
  offs,         \* offs[r]: send_offset_1, recv_offset_1, send_offset_2, recv_offset_2
  final_mesh,   \* final_mesh of rank 0, the receive buffer of the gather
  chan,         \* chan[<<s, d>>]: point-to-point messages from s to d, in order
  coll,         \* coll[r]: the collective calls rank r has entered, in order
  exit_local,   \* exit_local[r] of solution_finder_mpi
  exit,         \* exit[r] of solution_finder_mpi
  i,            \* i[r], the iteration counter of solution_finder_mpi
  proc,         \* loop variable proc of rank 0 in initial_communication
  xi,           \* xi[r]: which MPI_Sendrecv of communicate_boundary rank r is in
  hist,         \* hist[r]: what rank r has done so far (history, read by no action)
  out,          \* what rank 0 has printed and written in the distributed mode
  errs,         \* the verdicts get_error() < tolerance of a single worker, by update
  seq,          \* the run of solution_finder_sequential on the initial grid
  par           \* the run of solution_finder_parallel on the initial grid

vars == <<n, size, sendmode, scenario, pc, mesh, mesh_obj, offs, final_mesh,
          chan, coll, exit_local, exit, i, proc, xi, hist, out, errs, seq, par>>

Ranks == 0 .. size - 1

Min(a, b) == IF a < b THEN a ELSE b

\* ------------------------------------------------------- buffers and slices
\* the n*n grid rank 0 scatters: element k holds k, so every element is known
InitialMesh == [k \in 1 .. n * n |-> k]

\* what a read outside an allocated buffer can return
OOBValues == {0, -1}

\* count elements of buf from C index off
Slice(buf, off, count) == [j \in 1 .. count |-> buf[off + j]]

\* buf with data stored from C index off on
Overwrite(buf, off, data) ==
  [k \in 1 .. Len(buf) |->
     IF k > off /\ k <= off + Len(data) THEN data[k - off] ELSE buf[k]]

\* the positions of a read of count elements from C index start of the
\* initial grid that fall outside it
OutOfGrid(start, count) ==
  {j \in 1 .. count : start + j - 1 < 0 \/ start + j - 1 >= n * n}

\* every outcome of reading count elements of the initial grid from C index
\* start: elements inside the grid are read, the others are arbitrary
ReadInitial(start, count) ==
  { [j \in 1 .. count |->
       IF j \in OutOfGrid(start, count) THEN g[j] ELSE InitialMesh[start + j]] :
    g \in [OutOfGrid(start, count) -> OOBValues] }

Zeros(count) == [j \in 1 .. count |-> 0]

\* ------------------------------------------------------ Solver, per rank
\* expected_size of initial_communication
expected_size(rank) ==
  IF rank = 0 \/ rank = size - 1 THEN (n * n) \div size + n
                                 ELSE (n * n) \div size + 2 * n

\* C index of the first element rank 0 sends to rank size-1. The source
\* computes it in size_t: when (size-1)*n/size is 0 the subtraction wraps and
\* the product addresses the element n places before the grid, index -n.
LastStart == (((size - 1) * n) \div size - 1) * n

\* element count of the message to rank size-1
LastCount == expected_size(0)

\* mutant of ProcStart: the slice of an interior rank starts at its first
\* own row, with no leading halo row
ProcStart_NoHalo(p) == ((p * n) \div size) * n

\* C index of the first element rank 0 sends to the interior rank p
ProcStart(p) == ((p * n) \div size - 1) * n

\* element count of the message to an interior rank
ProcCount == expected_size(0) + n

\* the element count a rank other than 0 passes to its MPI_Recv
RecvCount(rank) == expected_size(rank)

\* mutant of Offsets: send_offset_2 addresses the trailing halo row itself
Offsets_SendHalo(len) ==
  [send_offset_1 |-> n, recv_offset_1 |-> 0,
   send_offset_2 |-> len - n, recv_offset_2 |-> len - n]

\* mutant of Offsets: the leading receive slot is the first interior row
Offsets_RecvInterior(len) ==
  [send_offset_1 |-> n, recv_offset_1 |-> n,
   send_offset_2 |-> len - 2 * n, recv_offset_2 |-> len - n]

\* the four offsets the constructor derives from the local buffer's size
Offsets(len) ==
  [send_offset_1 |-> n, recv_offset_1 |-> 0,
   send_offset_2 |-> len - 2 * n, recv_offset_2 |-> len - n]

\* mutant of Exchanges: the test for the last rank is off by one
\* (rank == size), so rank size-1 runs the branch of the interior ranks
Exchanges_LastAsInterior(rank) ==
  IF rank = 0
    THEN << [dest |-> 1, soff |-> offs[rank].send_offset_2,
             source |-> 1, roff |-> offs[rank].recv_offset_2] >>
  ELSE << [dest |-> rank - 1, soff |-> offs[rank].send_offset_1,
           source |-> rank - 1, roff |-> offs[rank].recv_offset_1],
          [dest |-> rank + 1, soff |-> offs[rank].send_offset_2,
           source |-> rank + 1, roff |-> offs[rank].recv_offset_2] >>

\* mutant of Exchanges: rank 0 receives at recv_offset_1, the top of its
\* buffer, instead of recv_offset_2
Exchanges_Rank0TopSlot(rank) ==
  IF rank = 0
    THEN << [dest |-> 1, soff |-> offs[rank].send_offset_2,
             source |-> 1, roff |-> offs[rank].recv_offset_1] >>
  ELSE IF rank = size - 1
    THEN << [dest |-> rank - 1, soff |-> offs[rank].send_offset_1,
             source |-> rank - 1, roff |-> offs[rank].recv_offset_1] >>
  ELSE << [dest |-> rank - 1, soff |-> offs[rank].send_offset_1,
           source |-> rank - 1, roff |-> offs[rank].recv_offset_1],
          [dest |-> rank + 1, soff |-> offs[rank].send_offset_2,
           source |-> rank + 1, roff |-> offs[rank].recv_offset_2] >>

\* the MPI_Sendrecv calls of communicate_boundary, in program order: the
\* destination and send offset, the source and receive offset
Exchanges(rank) ==
  IF rank = 0
    THEN << [dest |-> 1, soff |-> offs[rank].send_offset_2,
             source |-> 1, roff |-> offs[rank].recv_offset_2] >>
  ELSE IF rank = size - 1
    THEN << [dest |-> rank - 1, soff |-> offs[rank].send_offset_1,
             source |-> rank - 1, roff |-> offs[rank].recv_offset_1] >>
  ELSE << [dest |-> rank - 1, soff |-> offs[rank].send_offset_1,
           source |-> rank - 1, roff |-> offs[rank].recv_offset_1],
          [dest |-> rank + 1, soff |-> offs[rank].send_offset_2,
           source |-> rank + 1, roff |-> offs[rank].recv_offset_2] >>

\* mutant of GatherBuffer: no rank drops its last row before the gather
GatherBuffer_NoResize(rank, buf) == buf

\* final_communication: the local buffer as it is when MPI_Gather is called
\* (an interior rank first drops its last row)
GatherBuffer(rank, buf) ==
  IF rank = 0 \/ rank = size - 1 THEN buf
  ELSE SubSeq(buf, 1, Len(buf) - n)

\* C index of the first element a rank hands to MPI_Gather
GatherStart(rank) == IF rank = 0 THEN 0 ELSE n

\* the send count (and, on rank 0, the receive count) given to MPI_Gather
GatherCount(rank, buf) == Len(GatherBuffer(rank, buf)) - n

\* the stopping criterion of the loop; converged stands for
\* mesh_obj.get_error() < c.tolerance
StopCriteria(converged, iter) ==
  IF converged \/ iter = n_max - 1 THEN 1 ELSE 0

\* the stopping criterion of solution_finder_sequential
StopSeq(converged, iter) == converged \/ iter = n_max - 1

\* mutant of StopPar: the cap is compared with n_max instead of n_max - 1
StopPar_CapAtMax(converged, iter) == converged \/ iter = n_max

\* the stopping criterion of solution_finder_parallel
StopPar(converged, iter) == converged \/ iter = n_max - 1

\* the line a solver prints when its loop is over: the iteration count and
\* the two times, each behind its label; nothing else is printed
ReportLine(iter) ==
  [iter |-> iter, labels |-> {"Iter", "time", "Mean time each update"}]

\* mutant of MustUpdate: the update is not guarded by exit_local
MustUpdate_Always(rank) == TRUE

\* the guard of the local update
MustUpdate(rank) == exit_local[rank] = 0

\* mutant of TakeBoundary: set_mesh and ++i guarded by the local flag
TakeBoundary_Local(rank) == exit_local[rank] = 0

\* the guard of set_mesh and ++i at the end of the loop body
TakeBoundary(rank) == exit[rank] = 0

\* mutant of KeepGoing: the loop runs while the local flag is false
KeepGoing_Local(rank) == exit_local[rank] = 0

\* the condition of the do-while loop
KeepGoing(rank) == exit[rank] = 0

\* mutant of FirstByte: the byte read is the high-order byte of the int
FirstByte_HighOrder(v) == (v \div 16777216) % 256

\* MPI_CXX_BOOL reads one byte of the int flag: its low-order byte, the
\* first one in memory on the little-endian targets of the build
FirstByte(v) == v % 256

\* MPI_LAND over the contributions of all ranks
MPI_LAND(vals) == IF \A r \in DOMAIN vals : vals[r] # 0 THEN 1 ELSE 0

\* ---------------------------------------------------------- message layer
NoHist ==
  [rounds |-> 0, updates |-> 0, comms |-> 0, scattered |-> <<>>,
   seen |-> <<>>, exch |-> <<>>, halo |-> <<>>, gather |-> <<>>]

Post(s, d, m) == [chan EXCEPT ![<<s, d>>] = Append(@, m)]

\* a standard-mode send returns once the message is buffered (eager) or once
\* the matching receive has taken it (rendezvous)
SendComplete(s, d) == sendmode = "eager" \/ chan[<<s, d>>] = <<>>

\* MPI_ERRORS_ARE_FATAL: an MPI error ends every process of the job
Abort == pc' = [r \in Ranks |-> "aborted"]

\* the ranks whose k-th collective call is op
Entered(k, op) == {r \in Ranks : Len(coll[r]) >= k /\ coll[r][k].op = op}

\* a single-worker solver on the whole grid (sequential or thread-parallel):
\* the locals i and exit of its loop, the kernel's grid, what it has printed
\* and written; it runs only when the driver compares the modes
SingleRun ==
  [pc |-> IF scenario = "compare" THEN "loop" ELSE "off",
   i |-> 1, exit |-> FALSE, updates |-> 0, mesh |-> InitialMesh,
   report |-> <<>>, files |-> <<>>]

\* the state after construction, the run being one of the given scenarios
Setup(scenarios) ==
  /\ n \in 1 .. MaxN
  /\ size \in 1 .. Min(n, MaxSize)
  /\ sendmode \in {"eager", "rendezvous"}
  /\ scenario \in scenarios
  /\ pc = [r \in Ranks |-> "ic"]
  /\ mesh = [r \in Ranks |-> Zeros(expected_size(r))]
  /\ mesh_obj = [r \in Ranks |-> Zeros(expected_size(r))]
  /\ offs = [r \in Ranks |-> Offsets(expected_size(r))]
  /\ final_mesh = Zeros(n * n)
  /\ chan = [c \in Ranks \X Ranks |-> <<>>]
  /\ coll = [r \in Ranks |-> <<>>]
  /\ exit_local = [r \in Ranks |-> 0]
  /\ exit = [r \in Ranks |-> 0]
  /\ i = [r \in Ranks |-> 1]
  /\ proc = 1
  /\ xi = [r \in Ranks |-> 1]
  /\ hist = [r \in Ranks |-> NoHist]
  /\ out = [report |-> <<>>, files |-> <<>>]
  /\ errs = <<>>
  /\ seq = SingleRun
  /\ par = SingleRun

\* a distributed solve, or the scatter followed at once by the gather
Init == Setup({"solve", "roundtrip"})

\* a distributed solve with a kernel that changes no value
InitNoop == Setup({"noop"})

\* a distributed solve whose error never drops below the tolerance
InitNever == Setup({"never"})

\* one worker: the three modes on the same initial grid
InitModes == Setup({"compare"}) /\ size = 1

\* ------------------------------------------------- initial_communication
\* rank 0 copies its own expected_size elements of the initial grid
IC_Copy(r) ==
  /\ pc[r] = "ic" /\ r = 0
  /\ \E data \in ReadInitial(0, expected_size(r)) :
       mesh' = [mesh EXCEPT ![r] = Overwrite(@, 0, data)]
  /\ pc' = [pc EXCEPT ![r] = "ic_send_last"]
  /\ UNCHANGED <<n, size, sendmode, scenario, mesh_obj, offs, final_mesh, chan,
                 coll, exit_local, exit, i, proc, xi, hist,
                 out, errs, seq, par>>

\* rank 0: MPI_Send to rank size-1
IC_SendLast(r) ==
  /\ pc[r] = "ic_send_last"
  /\ \E data \in ReadInitial(LastStart, LastCount) :
       chan' = Post(r, size - 1, [data |-> data, round |-> 0, iter |-> 0])
  /\ hist' = [hist EXCEPT ![r].scattered =
                Append(@, [dest |-> size - 1, count |-> LastCount])]
  /\ pc' = [pc EXCEPT ![r] = "ic_wait_last"]
  /\ UNCHANGED <<n, size, sendmode, scenario, mesh, mesh_obj, offs, final_mesh,
                 coll, exit_local, exit, i, proc, xi,
                 out, errs, seq, par>>

\* rank 0: the send to rank size-1 returns; for(int proc = 1; ...) starts
IC_LastSent(r) ==
  /\ pc[r] = "ic_wait_last"
  /\ SendComplete(r, size - 1)
  /\ proc' = 1
  /\ pc' = [pc EXCEPT ![r] = IF 1 < size - 1 THEN "ic_send_proc" ELSE "ic_done"]
  /\ UNCHANGED <<n, size, sendmode, scenario, mesh, mesh_obj, offs, final_mesh,
                 chan, coll, exit_local, exit, i, xi, hist,
                 out, errs, seq, par>>

\* rank 0: MPI_Send to the interior rank proc
IC_SendProc(r) ==
  /\ pc[r] = "ic_send_proc"
  /\ \E data \in ReadInitial(ProcStart(proc), ProcCount) :
       chan' = Post(r, proc, [data |-> data, round |-> 0, iter |-> 0])
  /\ hist' = [hist EXCEPT ![r].scattered =
                Append(@, [dest |-> proc, count |-> ProcCount])]
  /\ pc' = [pc EXCEPT ![r] = "ic_wait_proc"]
  /\ UNCHANGED <<n, size, sendmode, scenario, mesh, mesh_obj, offs, final_mesh,
                 coll, exit_local, exit, i, proc, xi,
                 out, errs, seq, par>>

\* rank 0: the send to proc returns; ++proc and the loop test
IC_ProcSent(r) ==
  /\ pc[r] = "ic_wait_proc"
  /\ SendComplete(r, proc)
  /\ proc' = proc + 1
  /\ pc' = [pc EXCEPT ![r] =
              IF proc + 1 < size - 1 THEN "ic_send_proc" ELSE "ic_done"]
  /\ UNCHANGED <<n, size, sendmode, scenario, mesh, mesh_obj, offs, final_mesh,
                 chan, coll, exit_local, exit, i, xi, hist,
                 out, errs, seq, par>>

\* a rank other than 0: MPI_Recv from rank 0 into the start of mesh; a message
\* longer than the posted count is the error MPI_ERR_TRUNCATE
IC_Recv(r) ==
  /\ pc[r] = "ic" /\ r # 0
  /\ chan[<<0, r>>] # <<>>
  /\ LET m == Head(chan[<<0, r>>]) IN
       IF Len(m.data) > RecvCount(r)
         THEN /\ Abort
              /\ UNCHANGED <<mesh, chan>>
         ELSE /\ mesh' = [mesh EXCEPT ![r] = Overwrite(@, 0, m.data)]
              /\ chan' = [chan EXCEPT ![<<0, r>>] = Tail(@)]
              /\ pc' = [pc EXCEPT ![r] = "ic_done"]
  /\ UNCHANGED <<n, size, sendmode, scenario, mesh_obj, offs, final_mesh,
                 coll, exit_local, exit, i, proc, xi, hist,
                 out, errs, seq, par>>

\* the driver: with the scatter done it hands the local buffer to the kernel
\* and enters solution_finder_mpi, or (round trip) gathers at once
Start(r) ==
  /\ pc[r] = "ic_done"
  /\ IF scenario # "roundtrip"
       THEN /\ mesh_obj' = [mesh_obj EXCEPT ![r] = mesh[r]]
            /\ pc' = [pc EXCEPT ![r] = "loop"]
       ELSE /\ pc' = [pc EXCEPT ![r] = "fc"]
            /\ UNCHANGED mesh_obj
  /\ UNCHANGED <<n, size, sendmode, scenario, mesh, offs, final_mesh, chan,
                 coll, exit_local, exit, i, proc, xi, hist,
                 out, errs, seq, par>>

\* ----------------------------------------------------- local update kernel
\* one relaxation sweep of a buffer of rows of n elements: every element that
\* is neither in the first or last row nor in the first or last column gets
\* a new value from its four neighbours; the other elements are only read
update_par(buf) ==
  LET rows == Len(buf) \div n
      row(k) == (k - 1) \div n + 1
      col(k) == ((k - 1) % n) + 1
  IN [k \in 1 .. Len(buf) |->
        IF /\ 2 <= row(k) /\ row(k) <= rows - 1
           /\ 2 <= col(k) /\ col(k) <= n - 1
          THEN (buf[k - n] + buf[k + n] + buf[k - 1] + buf[k + 1] + 1) % KernelMod
          ELSE buf[k]]

\* the sweep of the sequential kernel: the same relaxation, one thread
update_seq(buf) == update_par(buf)

\* the kernel of the run: a relaxation sweep, or (scenario "noop") a kernel
\* that changes no value
Kernel(buf) == IF scenario = "noop" THEN buf ELSE update_par(buf)

\* the verdicts get_error() < tolerance may give after update number k: any
\* verdict, but when the modes are compared they run the same kernel on the
\* same grid with the same tolerance, so update k gets the verdict it got in
\* the mode that made it first; in scenario "never" the error never drops
\* below the tolerance
Verdicts(k) ==
  IF scenario = "never" THEN {FALSE}
  ELSE IF scenario = "compare" /\ k <= Len(errs) THEN {errs[k]}
  ELSE BOOLEAN

Noted(k, converged) ==
  IF scenario = "compare" /\ k = Len(errs) + 1 THEN Append(errs, converged)
  ELSE errs

\* ---------------------------------------------------- solution_finder_mpi
\* top of the do-while body with exit_local == 0: update_par, then the
\* stopping criterion with whatever error the kernel reports
Update(r) ==
  /\ pc[r] = "loop" /\ MustUpdate(r)
  /\ mesh_obj' = [mesh_obj EXCEPT ![r] = Kernel(@)]
  /\ \E converged \in Verdicts(hist[r].updates + 1) :
       /\ exit_local' = [exit_local EXCEPT ![r] = StopCriteria(converged, i[r])]
       /\ errs' = Noted(hist[r].updates + 1, converged)
       /\ hist' = [hist EXCEPT ![r].rounds = @ + 1, ![r].updates = @ + 1]
  /\ pc' = [pc EXCEPT ![r] = "allreduce"]
  /\ UNCHANGED <<n, size, sendmode, scenario, mesh, offs, final_mesh, chan,
                 coll, exit, i, proc, xi,
                 out, seq, par>>

\* top of the do-while body with exit_local != 0: no update
SkipUpdate(r) ==
  /\ pc[r] = "loop" /\ ~MustUpdate(r)
  /\ hist' = [hist EXCEPT ![r].rounds = @ + 1]
  /\ pc' = [pc EXCEPT ![r] = "allreduce"]
  /\ UNCHANGED <<n, size, sendmode, scenario, mesh, mesh_obj, offs, final_mesh,
                 chan, coll, exit_local, exit, i, proc, xi,
                 out, errs, seq, par>>

\* MPI_Allreduce(&exit_local, &exit, 1, MPI_CXX_BOOL, MPI_LAND): the call
AllreduceEnter(r) ==
  /\ pc[r] = "allreduce"
  /\ coll' = [coll EXCEPT ![r] =
                Append(@, [op |-> "land", val |-> FirstByte(exit_local[r])])]
  /\ pc' = [pc EXCEPT ![r] = "allreduce_wait"]
  /\ UNCHANGED <<n, size, sendmode, scenario, mesh, mesh_obj, offs, final_mesh,
                 chan, exit_local, exit, i, proc, xi, hist,
                 out, errs, seq, par>>

\* the all-reduce returns once every rank has made the matching call; then
\* mesh = mesh_obj.get_mesh() and communicate_boundary is entered
AllreduceReturn(r) ==
  /\ pc[r] = "allreduce_wait"
  /\ LET k == Len(coll[r]) IN
       /\ Entered(k, "land") = Ranks
       /\ exit' = [exit EXCEPT ![r] = MPI_LAND([s \in Ranks |-> coll[s][k].val])]
       /\ hist' = [hist EXCEPT
            ![r].seen = Append(@, [i |-> i[r], exit_local |-> exit_local[r],
                                   exit |-> exit'[r],
                                   updates |-> hist[r].updates]),
            ![r].comms = @ + 1]
  /\ mesh' = [mesh EXCEPT ![r] = mesh_obj[r]]
  /\ xi' = [xi EXCEPT ![r] = 1]
  /\ pc' = [pc EXCEPT ![r] = "cb"]
  /\ UNCHANGED <<n, size, sendmode, scenario, mesh_obj, offs, final_mesh, chan,
                 coll, exit_local, i, proc,
                 out, errs, seq, par>>

\* --------------------------------------------------- communicate_boundary
\* MPI_Sendrecv number xi[r]: the send half is posted; a destination or
\* source that is no rank of the communicator is the error MPI_ERR_RANK
CB_Post(r) ==
  /\ pc[r] = "cb"
  /\ LET e == Exchanges(r)[xi[r]] IN
       /\ hist' = [hist EXCEPT ![r].exch =
                     Append(@, [round |-> hist[r].rounds, dest |-> e.dest,
                                source |-> e.source, soff |-> e.soff,
                                roff |-> e.roff])]
       /\ IF e.dest \notin Ranks \/ e.source \notin Ranks
            THEN /\ Abort
                 /\ UNCHANGED chan
            ELSE /\ chan' = Post(r, e.dest, [data |-> Slice(mesh[r], e.soff, n),
                                             round |-> hist[r].rounds,
                                             iter |-> i[r]])
                 /\ pc' = [pc EXCEPT ![r] = "cb_recv"]
  /\ UNCHANGED <<n, size, sendmode, scenario, mesh, mesh_obj, offs, final_mesh,
                 coll, exit_local, exit, i, proc, xi,
                 out, errs, seq, par>>

\* the receive half: the next message of the source is stored at the receive
\* offset
CB_Recv(r) ==
  /\ pc[r] = "cb_recv"
  /\ LET e == Exchanges(r)[xi[r]] IN
       /\ chan[<<e.source, r>>] # <<>>
       /\ LET m == Head(chan[<<e.source, r>>]) IN
            /\ mesh' = [mesh EXCEPT ![r] = Overwrite(@, e.roff, m.data)]
            /\ hist' = [hist EXCEPT ![r].halo =
                          Append(@, [round |-> hist[r].rounds, iter |-> i[r],
                                     from |-> e.source, sent_round |-> m.round,
                                     sent_iter |-> m.iter, data |-> m.data])]
       /\ chan' = [chan EXCEPT ![<<e.source, r>>] = Tail(@)]
  /\ pc' = [pc EXCEPT ![r] = "cb_sent"]
  /\ UNCHANGED <<n, size, sendmode, scenario, mesh_obj, offs, final_mesh, coll,
                 exit_local, exit, i, proc, xi,
                 out, errs, seq, par>>

\* the MPI_Sendrecv returns once its send half is complete too; after the
\* last one communicate_boundary returns
CB_Return(r) ==
  /\ pc[r] = "cb_sent"
  /\ SendComplete(r, Exchanges(r)[xi[r]].dest)
  /\ xi' = [xi EXCEPT ![r] = @ + 1]
  /\ pc' = [pc EXCEPT ![r] =
              IF xi[r] < Len(Exchanges(r)) THEN "cb" ELSE "after_cb"]
  /\ UNCHANGED <<n, size, sendmode, scenario, mesh, mesh_obj, offs, final_mesh,
                 chan, coll, exit_local, exit, i, proc, hist,
                 out, errs, seq, par>>

\* if(!exit){ mesh_obj.set_mesh(mesh); ++i; } and the test of while(!exit)
LoopEnd(r) ==
  /\ pc[r] = "after_cb"
  /\ IF TakeBoundary(r)
       THEN /\ mesh_obj' = [mesh_obj EXCEPT ![r] = mesh[r]]
            /\ i' = [i EXCEPT ![r] = @ + 1]
       ELSE UNCHANGED <<mesh_obj, i>>
  /\ pc' = [pc EXCEPT ![r] = IF KeepGoing(r) THEN "loop" ELSE "sum"]
  /\ UNCHANGED <<n, size, sendmode, scenario, mesh, offs, final_mesh, chan,
                 coll, exit_local, exit, proc, xi, hist,
                 out, errs, seq, par>>

\* MPI_Allreduce(MPI_IN_PLACE, &mean_time, 1, MPI_DOUBLE, MPI_SUM): the call
SumEnter(r) ==
  /\ pc[r] = "sum"
  /\ coll' = [coll EXCEPT ![r] = Append(@, [op |-> "sum", val |-> 0])]
  /\ pc' = [pc EXCEPT ![r] = "sum_wait"]
  /\ UNCHANGED <<n, size, sendmode, scenario, mesh, mesh_obj, offs, final_mesh,
                 chan, exit_local, exit, i, proc, xi, hist,
                 out, errs, seq, par>>

\* the sum returns; rank 0 prints its line; mesh = mesh_obj.get_mesh();
\* final_communication is called
SumReturn(r) ==
  /\ pc[r] = "sum_wait"
  /\ Entered(Len(coll[r]), "sum") = Ranks
  /\ out' = IF r = 0 THEN [out EXCEPT !.report = ReportLine(i[r])] ELSE out
  /\ mesh' = [mesh EXCEPT ![r] = mesh_obj[r]]
  /\ pc' = [pc EXCEPT ![r] = "fc"]
  /\ UNCHANGED <<n, size, sendmode, scenario, mesh_obj, offs, final_mesh, chan,
                 coll, exit_local, exit, i, proc, xi, hist,
                 errs, seq, par>>

\* ---------------------------------------------------- final_communication
\* the rank's branch: an interior rank resizes mesh; every rank calls
\* MPI_Gather with its start and count; a rank other than the root is done
\* once its part is handed over
FC_Gather(r) ==
  /\ pc[r] = "fc"
  /\ mesh' = [mesh EXCEPT ![r] = GatherBuffer(r, @)]
  /\ coll' = [coll EXCEPT ![r] =
                Append(@, [op |-> "gather",
                           val |-> Slice(mesh'[r], GatherStart(r),
                                         GatherCount(r, mesh[r]))])]
  /\ hist' = [hist EXCEPT ![r].gather =
                <<[local |-> mesh[r], start |-> GatherStart(r),
                   count |-> GatherCount(r, mesh[r])]>>]
  /\ pc' = [pc EXCEPT ![r] = IF r = 0 THEN "fc_wait" ELSE "done"]
  /\ UNCHANGED <<n, size, sendmode, scenario, mesh_obj, offs, final_mesh, chan,
                 exit_local, exit, i, proc, xi,
                 out, errs, seq, par>>

\* the grid rank 0 holds after the gather: the part of rank s is stored at
\* C index s * recvcount; a part longer than recvcount is MPI_ERR_TRUNCATE
Gathered(recvcount, parts) ==
  [k \in 1 .. Len(final_mesh) |->
     LET s == (k - 1) \div recvcount
         j == ((k - 1) % recvcount) + 1
     IN IF s \in Ranks /\ j <= Len(parts[s]) THEN parts[s][j] ELSE final_mesh[k]]

\* rank 0: the gather returns once every rank has handed over its part; the
\* assembled grid is then written to the output file
FC_Root(r) ==
  /\ pc[r] = "fc_wait"
  /\ LET k == Len(coll[r])
         recvcount == Len(coll[r][k].val)
     IN /\ Entered(k, "gather") = Ranks
        /\ IF \E s \in Ranks : Len(coll[s][k].val) > recvcount
             THEN /\ Abort
                  /\ UNCHANGED <<final_mesh, out>>
             ELSE /\ final_mesh' = Gathered(recvcount,
                                            [s \in Ranks |-> coll[s][k].val])
                  /\ out' = [out EXCEPT !.files = Append(@, final_mesh')]
                  /\ pc' = [pc EXCEPT ![r] = "done"]
  /\ UNCHANGED <<n, size, sendmode, scenario, mesh, mesh_obj, offs, chan, coll,
                 exit_local, exit, i, proc, xi, hist,
                 errs, seq, par>>

\* --------------------------------------------- solution_finder_sequential
\* one pass of the do-while body: update_seq, the stopping criterion, the
\* line printed when it holds, ++i, and the test of while(!exit)
Seq_Update ==
  /\ seq.pc = "loop"
  /\ \E converged \in Verdicts(seq.updates + 1) :
       LET stop == StopSeq(converged, seq.i) IN
         /\ seq' = [seq EXCEPT !.mesh = update_seq(@),
                               !.updates = @ + 1,
                               !.exit = stop,
                               !.report = IF stop THEN ReportLine(seq.i) ELSE @,
                               !.i = @ + 1,
                               !.pc = IF stop THEN "write" ELSE "loop"]
         /\ errs' = Noted(seq.updates + 1, converged)
  /\ UNCHANGED <<n, size, sendmode, scenario, pc, mesh, mesh_obj, offs,
                 final_mesh, chan, coll, exit_local, exit, i, proc, xi, hist,
                 out, par>>

\* mesh_obj.write(filename) after the loop
Seq_Write ==
  /\ seq.pc = "write"
  /\ seq' = [seq EXCEPT !.files = Append(@, seq.mesh), !.pc = "done"]
  /\ UNCHANGED <<n, size, sendmode, scenario, pc, mesh, mesh_obj, offs,
                 final_mesh, chan, coll, exit_local, exit, i, proc, xi, hist,
                 out, errs, par>>

\* ----------------------------------------------- solution_finder_parallel
\* one pass of the do-while body: update_par(n_tasks), the stopping
\* criterion, the line printed when it holds, ++i, and while(!exit)
Par_Update ==
  /\ par.pc = "loop"
  /\ \E converged \in Verdicts(par.updates + 1) :
       LET stop == StopPar(converged, par.i) IN
         /\ par' = [par EXCEPT !.mesh = update_par(@),
                               !.updates = @ + 1,
                               !.exit = stop,
                               !.report = IF stop THEN ReportLine(par.i) ELSE @,
                               !.i = @ + 1,
                               !.pc = IF stop THEN "write" ELSE "loop"]
         /\ errs' = Noted(par.updates + 1, converged)
  /\ UNCHANGED <<n, size, sendmode, scenario, pc, mesh, mesh_obj, offs,
                 final_mesh, chan, coll, exit_local, exit, i, proc, xi, hist,
                 out, seq>>

\* mesh_obj.write(filename) after the loop
Par_Write ==
  /\ par.pc = "write"
  /\ par' = [par EXCEPT !.files = Append(@, par.mesh), !.pc = "done"]
  /\ UNCHANGED <<n, size, sendmode, scenario, pc, mesh, mesh_obj, offs,
                 final_mesh, chan, coll, exit_local, exit, i, proc, xi, hist,
                 out, errs, seq>>

Next ==
  \/ \E r \in Ranks : IC_Copy(r)
  \/ \E r \in Ranks : IC_SendLast(r)
  \/ \E r \in Ranks : IC_LastSent(r)
  \/ \E r \in Ranks : IC_SendProc(r)
  \/ \E r \in Ranks : IC_ProcSent(r)
  \/ \E r \in Ranks : IC_Recv(r)
  \/ \E r \in Ranks : Start(r)
  \/ \E r \in Ranks : Update(r)
  \/ \E r \in Ranks : SkipUpdate(r)
  \/ \E r \in Ranks : AllreduceEnter(r)
  \/ \E r \in Ranks : AllreduceReturn(r)
  \/ \E r \in Ranks : CB_Post(r)
  \/ \E r \in Ranks : CB_Recv(r)
  \/ \E r \in Ranks : CB_Return(r)
  \/ \E r \in Ranks : LoopEnd(r)
  \/ \E r \in Ranks : SumEnter(r)
  \/ \E r \in Ranks : SumReturn(r)
  \/ \E r \in Ranks : FC_Gather(r)
  \/ \E r \in Ranks : FC_Root(r)

Spec == Init /\ [][Next]_vars

NoopSpec == InitNoop /\ [][Next]_vars

\* with the error never below the tolerance every rank stops in the same
\* round, so no rank passes the top of the loop with exit_local set
NextNever ==
  \/ \E r \in Ranks : IC_Copy(r)
  \/ \E r \in Ranks : IC_SendLast(r)
  \/ \E r \in Ranks : IC_LastSent(r)
  \/ \E r \in Ranks : IC_SendProc(r)
  \/ \E r \in Ranks : IC_ProcSent(r)
  \/ \E r \in Ranks : IC_Recv(r)
  \/ \E r \in Ranks : Start(r)
  \/ \E r \in Ranks : Update(r)
  \/ \E r \in Ranks : AllreduceEnter(r)
  \/ \E r \in Ranks : AllreduceReturn(r)
  \/ \E r \in Ranks : CB_Post(r)
  \/ \E r \in Ranks : CB_Recv(r)
  \/ \E r \in Ranks : CB_Return(r)
  \/ \E r \in Ranks : LoopEnd(r)
  \/ \E r \in Ranks : SumEnter(r)
  \/ \E r \in Ranks : SumReturn(r)
  \/ \E r \in Ranks : FC_Gather(r)
  \/ \E r \in Ranks : FC_Root(r)

NeverSpec == InitNever /\ [][NextNever]_vars

\* the three modes with one worker: the two single-worker solvers, and of
\* the distributed mode the steps a lone rank 0 gets to
NextModes ==
  \/ Seq_Update
  \/ Seq_Write
  \/ Par_Update
  \/ Par_Write
  \/ \E r \in Ranks : IC_Copy(r)
  \/ \E r \in Ranks : IC_SendLast(r)
  \/ \E r \in Ranks : IC_LastSent(r)
  \/ \E r \in Ranks : Start(r)
  \/ \E r \in Ranks : Update(r)
  \/ \E r \in Ranks : AllreduceEnter(r)
  \/ \E r \in Ranks : AllreduceReturn(r)
  \/ \E r \in Ranks : CB_Post(r)

ModesSpec == InitModes /\ [][NextModes]_vars

\* ------------------------------------------------------------ properties
\* C index in the initial grid of the first element of a rank's local buffer:
\* rank 0 copies from index 0, the others get what rank 0 sends them
ScatterStart(rank) ==
  IF rank = 0 THEN 0
  ELSE IF rank = size - 1 THEN LastStart
  ELSE ProcStart(rank)

\* the C indices of the initial grid whose elements make up the part of the
\* local buffer a rank hands to the gather
InteriorRange(rank) ==
  LET buf == Zeros(expected_size(rank))
  IN { ScatterStart(rank) + GatherStart(rank) + j :
         j \in 0 .. GatherCount(rank, buf) - 1 }

ScatterPcs == {"ic", "ic_send_last", "ic_wait_last", "ic_send_proc", "ic_wait_proc"}
ExchangePcs == {"cb", "cb_recv", "cb_sent"}
LoopPcs == {"loop", "allreduce", "allreduce_wait", "after_cb"} \cup ExchangePcs
AfterLoopPcs == {"sum", "sum_wait", "fc", "fc_wait", "done"}

\* C1: the interior ranges of the ranks partition the n*n grid: together they
\* are the whole grid and no two of them share an element, for every n and
\* every size, also when size does not divide n.
C1_InteriorRangesPartition ==
  /\ UNION {InteriorRange(r) : r \in Ranks} = 0 .. n * n - 1
  /\ \A r, s \in Ranks : r # s => InteriorRange(r) \cap InteriorRange(s) = {}

\* C2: a scatter followed at once by the gather leaves at rank 0 a final grid
\* equal, element for element, to the initial grid.
C2_GatherRoundTrip ==
  (scenario = "roundtrip" /\ pc[0] = "done") => final_mesh = InitialMesh

\* C3: in the scatter the count of every message rank 0 sends is the count
\* its receiver passes to MPI_Recv, rank 0 sends exactly one message to each
\* other rank, and no rank is left blocked inside initial_communication.
C3_ScatterMatchesAndCompletes ==
  /\ \A k \in 1 .. Len(hist[0].scattered) :
       LET e == hist[0].scattered[k]
       IN e.dest \in 1 .. size - 1 => e.count = RecvCount(e.dest)
  /\ pc[0] \notin ScatterPcs \cup {"aborted"} =>
       \A d \in 1 .. size - 1 :
         Cardinality({k \in 1 .. Len(hist[0].scattered) :
                        hist[0].scattered[k].dest = d}) = 1
  /\ (\E r \in Ranks : pc[r] \in ScatterPcs) => ENABLED Next

ChannelsEmpty == \A c \in Ranks \X Ranks : chan[c] = <<>>

\* C4: for size >= 2 the halo exchange is deadlock-free: under any
\* interleaving a rank inside communicate_boundary is never left in a state
\* where no process can move (every run is finite, so each rank then returns),
\* and once no rank is inside it every message sent has found its receive.
C4_HaloExchangeDeadlockFree ==
  size >= 2 =>
    /\ \A r \in Ranks : pc[r] # "aborted"
    /\ (\E r \in Ranks : pc[r] \in ExchangePcs) => ENABLED Next
    /\ (\A r \in Ranks : pc[r] \in (LoopPcs \ ExchangePcs) \cup AfterLoopPcs)
         => ChannelsEmpty

\* an interior rank has returned from communicate_boundary, its two exchanges
\* done, with sends that wait for the matching receive
C4_Witness ==
  /\ sendmode = "rendezvous" /\ size >= 3
  /\ pc[1] = "after_cb" /\ Len(hist[1].halo) = 2

\* C5: the halo row a rank receives in its round-k call of
\* communicate_boundary was sent by the neighbour in the neighbour's round-k
\* call, with the same iteration counter, under any interleaving.
C5_HaloFromSameRound ==
  \A r \in Ranks : \A k \in 1 .. Len(hist[r].halo) :
    LET h == hist[r].halo[k]
    IN h.sent_round = h.round /\ h.sent_iter = h.iter

\* a halo row has been received in a second round
C5_Witness ==
  \E r \in Ranks : \E k \in 1 .. Len(hist[r].halo) : hist[r].halo[k].round = 2

\* C6: termination is symmetric: in every round all ranks hold the same i and
\* observe the same global exit, they leave the loop in the same round, and
\* they make the same number of all-reduce and halo-exchange calls.
C6_SymmetricTermination ==
  \A r, s \in Ranks :
    /\ \A k \in 1 .. Min(Len(hist[r].seen), Len(hist[s].seen)) :
         /\ hist[r].seen[k].i = hist[s].seen[k].i
         /\ hist[r].seen[k].exit = hist[s].seen[k].exit
    /\ pc[r] \in AfterLoopPcs /\ scenario = "solve" =>
         hist[s].rounds <= hist[r].rounds
    /\ pc[r] \in AfterLoopPcs /\ pc[s] \in AfterLoopPcs =>
         /\ hist[r].rounds = hist[s].rounds
         /\ hist[r].comms = hist[s].comms
         /\ Len(hist[r].seen) = Len(hist[s].seen)

\* several ranks have left the loop after two rounds
C6_Witness ==
  /\ size >= 2
  /\ \A r \in Ranks : pc[r] \in AfterLoopPcs /\ hist[r].rounds = 2

\* C7: in a round in which the local exit flag of every rank is true the
\* all-reduced exit flag is true on every rank, and a rank that has seen the
\* global exit flag true performs no further local update.
C7_GlobalExitWhenAllLocal ==
  /\ \A k \in 1 .. n_max :
       (\A s \in Ranks : Len(hist[s].seen) >= k /\ hist[s].seen[k].exit_local # 0)
         => \A r \in Ranks : hist[r].seen[k].exit # 0
  /\ \A r \in Ranks :
       exit[r] # 0 =>
         hist[r].updates = hist[r].seen[Len(hist[r].seen)].updates

\* all ranks were locally done only in the second round and have seen the
\* global exit
C7_Witness ==
  /\ size >= 2
  /\ \A r \in Ranks : exit[r] # 0 /\ Len(hist[r].seen) = 2
  /\ \E r \in Ranks : hist[r].seen[1].exit_local = 0

\* C8: once the local exit flag of a rank is true it stays true and the rank
\* makes no further local update, yet in every later round it still makes one
\* all-reduce call and one communicate_boundary call, so no peer is left
\* blocked while the loop runs.
C8_LocalDoneKeepsParticipating ==
  /\ \A r \in Ranks :
       LET seen == hist[r].seen IN
       /\ \A k1, k2 \in 1 .. Len(seen) :
            k1 < k2 /\ seen[k1].exit_local # 0 =>
              /\ seen[k2].exit_local # 0
              /\ seen[k2].updates = seen[k1].updates
       /\ Len(seen) >= 1 /\ seen[Len(seen)].exit_local # 0 =>
            /\ exit_local[r] # 0
            /\ hist[r].updates = seen[Len(seen)].updates
       /\ pc[r] \in {"loop", "after_cb"} \cup AfterLoopPcs /\ scenario = "solve" =>
            /\ Cardinality({k \in 1 .. Len(coll[r]) : coll[r][k].op = "land"})
                 = hist[r].rounds
            /\ hist[r].comms = hist[r].rounds
            /\ Len(hist[r].halo) = hist[r].rounds * Len(Exchanges(r))
  /\ size >= 2 /\ (\E r \in Ranks : pc[r] \in LoopPcs) => ENABLED Next

\* a rank was locally done in a round in which the global exit was false and
\* has gone through the next round
C8_Witness ==
  \E r \in Ranks :
    /\ pc[r] \in AfterLoopPcs /\ Len(hist[r].seen) = 2
    /\ hist[r].seen[1].exit_local # 0 /\ hist[r].seen[1].exit = 0

\* the halo rows of buf, the buffer of rank r, are the rows its neighbours
\* send: the first interior row of the next rank, the last interior row of
\* the previous one
HaloMirrors(r, buf) ==
  /\ r < size - 1 =>
       Slice(buf, Len(buf) - n, n) = Slice(mesh[r + 1], n, n)
  /\ r > 0 =>
       Slice(buf, 0, n) = Slice(mesh[r - 1], Len(mesh[r - 1]) - 2 * n, n)

\* C9: communicate_boundary is called once per round, after the round's
\* update; when it has returned the trailing halo row of a rank is the first
\* interior row of the next rank and its leading halo row is the last interior
\* row of the previous rank, and the kernel's grid holds these halo rows when
\* the next update starts.
C9_HaloRowsAfterExchange ==
  \A r \in Ranks :
    /\ pc[r] \in {"allreduce", "allreduce_wait"} => hist[r].comms = hist[r].rounds - 1
    /\ pc[r] \in ExchangePcs \cup {"after_cb"} => hist[r].comms = hist[r].rounds
    /\ pc[r] = "after_cb" => HaloMirrors(r, mesh[r])
    /\ pc[r] = "loop" /\ hist[r].rounds >= 1 =>
         /\ hist[r].comms = hist[r].rounds
         /\ HaloMirrors(r, mesh_obj[r])

\* rank 0 starts its second round with a trailing halo row that the update of
\* rank 1 has changed since the scatter
C9_Witness ==
  /\ size >= 3 /\ pc[0] = "loop" /\ hist[0].rounds = 1
  /\ Slice(mesh_obj[0], Len(mesh_obj[0]) - n, n)
       # Slice(InitialMesh, Len(mesh_obj[0]) - n, n)

\* C10: rank 0 exchanges only with rank 1 (last interior row out, trailing
\* halo slot in), rank size-1 only with rank size-2 (first interior row out,
\* leading halo slot in), an interior rank first with rank-1 and then with
\* rank+1, and no rank addresses a rank outside [0, size).
C10_ExchangePartners ==
  \A r \in Ranks : \A k \in 1 .. Len(hist[r].exch) :
    LET e == hist[r].exch[k]
        len == Len(mesh[r])
    IN /\ e.dest \in Ranks /\ e.source \in Ranks
       /\ r = 0 =>
            /\ e.dest = 1 /\ e.source = 1
            /\ e.soff = len - 2 * n /\ e.roff = len - n
       /\ r # 0 /\ r = size - 1 =>
            /\ e.dest = size - 2 /\ e.source = size - 2
            /\ e.soff = n /\ e.roff = 0
       /\ r # 0 /\ r # size - 1 =>
            /\ k % 2 = 1 => e.dest = r - 1 /\ e.source = r - 1
            /\ k % 2 = 0 => e.dest = r + 1 /\ e.source = r + 1

\* C11: in final_communication every rank hands to the gather only what lies
\* between its halo rows (rank 0 all but its trailing halo row, rank size-1
\* all but its leading halo row, an interior rank all but both), and the
\* element count it passes is n*n/size on every rank.
C11_GatherInteriorOnly ==
  \A r \in Ranks : \A k \in 1 .. Len(hist[r].gather) :
    LET g == hist[r].gather[k]
        len == Len(g.local)
        first == IF r = 0 THEN 0 ELSE n
        last == IF r # 0 /\ r = size - 1 THEN len ELSE len - n
        call == coll[r][Len(coll[r])]
    IN /\ g.start = first /\ g.start + g.count = last
       /\ g.count = (n * n) \div size
       /\ call.op = "gather" /\ call.val = Slice(g.local, first, last - first)

\* rank 0, an interior rank and the last rank have handed over their parts of
\* a solved grid and rank 0 has assembled them
C11_Witness ==
  /\ size >= 3 /\ scenario = "solve" /\ pc[0] = "done"
  /\ \A r \in Ranks : Len(hist[r].gather) = 1

\* C12: with size = 1 the single worker owns the whole grid and has no halo
\* rows: its expected local buffer is exactly n*n elements,
\* initial_communication reads no element past the end of the initial grid
\* and sends no message, and communicate_boundary performs no exchange.
C12_SingleWorkerNoHalo ==
  size = 1 =>
    /\ expected_size(0) = n * n
    /\ pc[0] # "ic" => OutOfGrid(0, expected_size(0)) = {}
    /\ hist[0].scattered = <<>>
    /\ hist[0].exch = <<>>

\* C13: with size = 1, on the same initial grid and with the same tolerance
\* and kernel, the distributed mode ends with a gathered grid equal to the
\* grid solution_finder_sequential writes, after the same number of local
\* updates.
C13_SingleWorkerMatchesSequential ==
  (size = 1 /\ scenario = "compare" /\ ~ENABLED (Next \/ NextModes)) =>
    /\ seq.pc = "done" /\ pc[0] = "done"
    /\ out.files = seq.files
    /\ hist[0].updates = seq.updates

\* C14: each of the three loops terminates: it is left in the first round in
\* which the (global) stopping condition holds and at the latest in round
\* n_max - 1, no worker makes more than n_max - 1 local updates, and the run
\* goes on to gather and persist its grid.
C14_LoopsTerminate ==
  /\ seq.updates <= n_max - 1 /\ par.updates <= n_max - 1
  /\ \A r \in Ranks : hist[r].updates <= n_max - 1 /\ hist[r].rounds <= n_max - 1
  /\ seq.pc = "loop" => \A k \in 1 .. seq.updates : ~errs[k]
  /\ par.pc = "loop" => \A k \in 1 .. par.updates : ~errs[k]
  /\ \A r \in Ranks : \A k \in 1 .. Len(hist[r].seen) :
       hist[r].seen[k].exit # 0 => k = Len(hist[r].seen) /\ pc[r] # "loop"
  /\ ~ENABLED (Next \/ NextModes) =>
       /\ seq.pc \in {"done", "off"} /\ par.pc \in {"done", "off"}
       /\ scenario # "roundtrip" =>
            /\ \A r \in Ranks : pc[r] = "done"
            /\ Len(out.files) = 1
       /\ scenario = "compare" => Len(seq.files) = 1 /\ Len(par.files) = 1

\* C15: solution_finder_parallel and solution_finder_sequential have the same
\* loop and exit behaviour: with the same error verdicts they make the same
\* number of updates and print the same iteration count, and each then
\* writes its grid exactly once; as long as both are in their loops neither
\* has written anything.
C15_ParallelLoopLikeSequential ==
  /\ (seq.pc # "loop" /\ par.pc # "loop") =>
       /\ seq.updates = par.updates
       /\ seq.report = par.report /\ seq.report # <<>>
       /\ seq.report.iter = seq.updates
  /\ (seq.pc = "loop" /\ par.pc # "loop") => seq.updates < par.updates
  /\ (par.pc = "loop" /\ seq.pc # "loop") => par.updates < seq.updates
  /\ \A run \in {seq, par} :
       /\ Len(run.files) = IF run.pc = "done" THEN 1 ELSE 0
       /\ run.pc = "loop" => run.report = <<>> /\ run.i = run.updates + 1
       /\ run.pc \in {"loop", "write", "done"}

\* both solvers have gone round their loops twice, the second update meeting
\* the tolerance, and have written their grids
C15_Witness ==
  /\ seq.pc = "done" /\ par.pc = "done"
  /\ seq.updates = 2 /\ par.updates = 2
  /\ errs = <<FALSE, TRUE>>

\* C16: in a distributed run the four offsets of every rank are
\* send_offset_1 = n, recv_offset_1 = 0, send_offset_2 = local buffer size
\* - 2n and recv_offset_2 = local buffer size - n, and neither they nor the
\* size of the local buffer change after construction: not in the scatter,
\* not in any round, not in the gather.
C16_OffsetsAndSizeFixed ==
  \A r \in Ranks :
    /\ Len(mesh[r]) = expected_size(r)
    /\ offs[r].send_offset_1 = n
    /\ offs[r].recv_offset_1 = 0
    /\ offs[r].send_offset_2 = Len(mesh[r]) - 2 * n
    /\ offs[r].recv_offset_2 = Len(mesh[r]) - n

\* C17: with a kernel that changes no value the halo exchange is idempotent:
\* after the first round's communicate_boundary, the exchange of every
\* further round stores in every halo row what the first round stored
\* there, and leaves the whole local buffer as it was before the exchange.
C17_ExchangeIdempotentUnderNoop ==
  scenario = "noop" =>
    \A r \in Ranks :
      /\ \A j, k \in 1 .. Len(hist[r].halo) :
           LET a == hist[r].halo[j]
               b == hist[r].halo[k]
           IN a.from = b.from => a.data = b.data
      /\ (pc[r] \in ExchangePcs \cup {"after_cb"} /\ hist[r].rounds >= 2) =>
           mesh[r] = mesh_obj[r]

\* a rank is through the exchange of its second round, and the exchange of
\* the first round had given it a halo row other than the scattered one
C17_Witness ==
  \E r \in Ranks :
    /\ scenario = "noop" /\ size >= 2
    /\ pc[r] = "after_cb" /\ hist[r].rounds = 2
    /\ mesh[r] # Slice(InitialMesh, ScatterStart(r), expected_size(r))

\* C18: when the loop ends because the iteration cap was reached and not
\* because the error fell below the tolerance, the run ends the normal way:
\* the result is gathered and written by rank 0, and the printed report
\* carries a note that the cap was hit.
C18_CapHitIsNoted ==
  scenario = "never" =>
    /\ (\E r \in Ranks : pc[r] \in AfterLoopPcs) =>
         /\ \A r \in Ranks : pc[r] # "aborted"
         /\ ENABLED NextNever \/ \A r \in Ranks : pc[r] = "done"
    /\ pc[0] = "done" => out.files = <<final_mesh>> /\ out.report # <<>>
    /\ out.report # <<>> =>
         /\ out.report.iter = n_max - 1
         /\ \E l \in out.report.labels :
              l \notin {"Iter", "time", "Mean time each update"}

\* the C indices of its local buffer a rank may write in communicate_boundary:
\* the n elements at recv_offset_2 (rank 0), at recv_offset_1 (rank size-1),
\* or both rows (interior ranks)
HaloSlots(r) ==
  LET lead == {offs[r].recv_offset_1 + j : j \in 0 .. n - 1}
      trail == {offs[r].recv_offset_2 + j : j \in 0 .. n - 1}
  IN IF r = 0 THEN trail
     ELSE IF r = size - 1 THEN lead
     ELSE lead \cup trail

\* C19: a step of a rank inside communicate_boundary changes no element of
\* its local buffer outside its halo slots, and leaves the buffer's size, the
\* offsets and the local exit flag as they are; the row an exchange sends
\* and the row it receives share no element.
C19_ExchangeFrame ==
  [][\A r \in Ranks :
       pc[r] \in ExchangePcs =>
         /\ Len(mesh'[r]) = Len(mesh[r])
         /\ \A k \in 1 .. Len(mesh[r]) :
              mesh'[r][k] # mesh[r][k] => k - 1 \in HaloSlots(r)
         /\ HaloSlots(r) \subseteq
              IF r = 0 THEN Len(mesh[r]) - n .. Len(mesh[r]) - 1
              ELSE IF r = size - 1 THEN 0 .. n - 1
              ELSE (0 .. n - 1) \cup (Len(mesh[r]) - n .. Len(mesh[r]) - 1)
         /\ offs'[r] = offs[r]
         /\ exit_local'[r] = exit_local[r]
         /\ mesh_obj'[r] = mesh_obj[r]
         /\ \A k \in 1 .. Len(Exchanges(r)) :
              LET e == Exchanges(r)[k]
              IN e.soff + n <= e.roff \/ e.roff + n <= e.soff]_vars

\* with an interior rank in the run, a rank has stored a received row that
\* differs from the halo row it had before the exchange
C19_Witness ==
  \E r \in Ranks :
    /\ size >= 3 /\ scenario = "solve"
    /\ pc[r] = "cb_sent" /\ mesh[r] # mesh_obj[r]

\* C20: for 2 <= size <= n every slice of the initial grid rank 0 reads in
\* initial_communication (its own first n*n/size + n elements, the slice of
\* the last rank, the slice of length n*n/size + 2n of each interior rank)
\* lies inside the grid, indices 0 .. n*n - 1, and no start index is negative
\* or wrapped.
C20_ScatterReadsInsideGrid ==
  (2 <= size /\ size <= n) =>
    /\ expected_size(0) = (n * n) \div size + n
    /\ OutOfGrid(0, expected_size(0)) = {}
    /\ LastCount = (n * n) \div size + n
    /\ LastStart >= 0 /\ OutOfGrid(LastStart, LastCount) = {}
    /\ \A p \in 1 .. size - 2 :
         /\ ProcCount = (n * n) \div size + 2 * n
         /\ ProcStart(p) >= 0 /\ OutOfGrid(ProcStart(p), ProcCount) = {}

\* rank 0 has read and sent the slices of an interior rank and of the last
\* rank
C20_Witness ==
  /\ size >= 3 /\ pc[0] = "ic_done" /\ Len(hist[0].scattered) = size - 1

====
